---- MODULE Spec2Model ----
(***************************************************************************)
(* ImageGenerator (src/ImageGenerator.py): one instance, its two entry     *)
(* coroutines make_image_text and make_image_voice, the three remote calls *)
(* they await on the injected client, and the two setters.                 *)
(*                                                                         *)
(* A coroutine runs without interruption from one await of a remote call   *)
(* to the next, so each action is the code between two such awaits.        *)
(* Each task is one caller's invocation; its log is the sequence of        *)
(* events (validator check, file open/close, remote call, request sent,    *)
(* remote return) of that invocation.                                      *)
(***************************************************************************)
EXTENDS Integers, Sequences, FiniteSets, TLC

VARIABLES chat_model, image_model, completions_messages, tasks

vars == <<chat_model, image_model, completions_messages, tasks>>

---------------------------------------------------------------------------
(* Bounds of the model *)

MaxCount == 11

MaxUrls == 2

Tasks == {"t1", "t2"}

Caller == {"t1"}

ChatModels == {"gpt-3.5-turbo", "gpt-4"}

ImageModels == {"dall-e-2", "dall-e-3", "other"}

Counts == {-1} \cup (0..MaxCount)

Sizes == {"256x256", "1024x1024"}

Prompts == {"cat", "dog"}

ChoiceLists ==
    {<<>>, <<"a fluffy cat, digital art">>, <<"a dog">>,
     <<"a dog", "a fluffy cat, digital art">>}

Urls == {"http://x/1", "http://x/2"}

ClientErrors == {"APIConnectionError", "RateLimitError"}

SeqsUpTo(S, k) == UNION {[1..m -> S] : m \in 0..k}

---------------------------------------------------------------------------
(* The local filesystem and the paths callers pass *)

Path(name, chars) == [name |-> name, chars |-> chars]

NoPath == Path("", <<>>)

AudioPaths ==
    { Path("a.mp3", <<"a", ".", "m", "p", "3">>),
      Path("a.mp4", <<"a", ".", "m", "p", "4">>),
      Path("a.mpeg", <<"a", ".", "m", "p", "e", "g">>),
      Path("a.mpga", <<"a", ".", "m", "p", "g", "a">>),
      Path("v/a.m4a", <<"v", "/", "a", ".", "m", "4", "a">>),
      Path("a.wav", <<"a", ".", "w", "a", "v">>),
      Path("a.webm", <<"a", ".", "w", "e", "b", "m">>),
      Path("a.WAV", <<"a", ".", "W", "A", "V">>),
      Path("a.Mp3", <<"a", ".", "M", "p", "3">>),
      Path("a.txt", <<"a", ".", "t", "x", "t">>),
      Path("a.mp", <<"a", ".", "m", "p">>),
      Path("a.wave", <<"a", ".", "w", "a", "v", "e">>),
      Path("noext", <<"n", "o", "e", "x", "t">>),
      Path(".mp3", <<".", "m", "p", "3">>),
      Path("a.", <<"a", ".">>),
      Path("a.mp3.txt", <<"a", ".", "m", "p", "3", ".", "t", "x", "t">>),
      Path("a.txt.mp3", <<"a", ".", "t", "x", "t", ".", "m", "p", "3">>),
      Path("v.wav/a", <<"v", ".", "w", "a", "v", "/", "a">>),
      Path("d.mp3", <<"d", ".", "m", "p", "3">>),
      Path("gone.mp3", <<"g", "o", "n", "e", ".", "m", "p", "3">>),
      Path("gone.txt", <<"g", "o", "n", "e", ".", "t", "x", "t">>) }

Paths ==
    {p \in AudioPaths :
        p.name \in {"v/a.m4a", "a.WAV", "a.txt", "noext", ".mp3", "gone.mp3", "d.mp3"}}

FSFiles ==
    {"a.mp3", "a.mp4", "a.mpeg", "a.mpga", "v/a.m4a", "a.wav", "a.webm", "a.WAV", "a.Mp3",
     "a.txt", "a.mp", "a.wave", "noext", ".mp3", "a.", "a.mp3.txt", "a.txt.mp3", "v.wav/a"}

FSDirs == {"d.mp3"}

os_path_exists(p) == p.name \in FSFiles \cup FSDirs

---------------------------------------------------------------------------
(* String helpers, on sequences of characters *)

UpperChars ==
    <<"A", "B", "C", "D", "E", "F", "G", "H", "I", "J", "K", "L", "M",
      "N", "O", "P", "Q", "R", "S", "T", "U", "V", "W", "X", "Y", "Z">>

LowerChars ==
    <<"a", "b", "c", "d", "e", "f", "g", "h", "i", "j", "k", "l", "m",
      "n", "o", "p", "q", "r", "s", "t", "u", "v", "w", "x", "y", "z">>

(* the comparison made on the extension as written *)
lower_Identity(s) == s

lower(s) ==
    [i \in DOMAIN s |->
        IF \E k \in DOMAIN UpperChars : UpperChars[k] = s[i]
        THEN LowerChars[CHOOSE k \in DOMAIN UpperChars : UpperChars[k] = s[i]]
        ELSE s[i]]

rfind(s, c) ==
    IF \E i \in DOMAIN s : s[i] = c
    THEN CHOOSE i \in DOMAIN s : s[i] = c /\ \A j \in DOMAIN s : s[j] = c => j <= i
    ELSE 0

splitext(p) ==
    LET sepIndex == rfind(p, "/")
        dotIndex == rfind(p, ".")
    IN  IF dotIndex > sepIndex
           /\ \E k \in (sepIndex + 1)..(dotIndex - 1) : p[k] # "."
        THEN <<SubSeq(p, 1, dotIndex - 1), SubSeq(p, dotIndex, Len(p))>>
        ELSE <<p, <<>>>>

AudioExtensions ==
    { <<"m", "p", "3">>, <<"m", "p", "4">>, <<"m", "p", "e", "g">>,
      <<"m", "p", "g", "a">>, <<"m", "4", "a">>, <<"w", "a", "v">>,
      <<"w", "e", "b", "m">> }

valid_audio_file(p) ==
    IF ~os_path_exists(p) THEN FALSE
    ELSE LET ext == splitext(p.chars)[2]
             low == lower(SubSeq(ext, 2, Len(ext)))
         IN  low \in AudioExtensions

---------------------------------------------------------------------------
(* Prompt template *)

main_context == "main_context"

prompt_setup == "prompt_setup"

length_restriction == "length_restriction"

Template(prompt_text) ==
    prompt_setup \o " \"" \o prompt_text \o "\" " \o length_restriction

---------------------------------------------------------------------------
(* Exceptions and task records *)

Exc(type, msg) == [type |-> type, msg |-> msg]

NoError == Exc("", "")

Ev(ev, api, data) == [ev |-> ev, api |-> api, data |-> data]

IdleTask ==
    [pc |-> "idle", op |-> "", path |-> NoPath, prompt |-> "", n |-> 0,
     size |-> "", vmodel |-> "", upgraded |-> "", result |-> <<>>,
     stage |-> "", err |-> NoError, log |-> <<>>]

Raise(rec, stage, exc) ==
    [rec EXCEPT !.pc = "failed", !.stage = stage, !.err = exc]

Logged(rec, e) == [rec EXCEPT !.log = Append(rec.log, e)]

---------------------------------------------------------------------------
(* make_image_text, lines 89-95, and _upgrade_prompt up to its await *)

(* the n_images < 1 test left out *)
CountError_NoLowerBound(model, n) ==
    IF model = "dall-e-3" /\ n > 1
    THEN "n_images must be 1 when self.image_model == \"dall-e-3\""
    ELSE IF model = "dall-e-2" /\ n > 10
    THEN "n_images must be between 1 and 10 (inclusive) when self.image_model == \"dall-e-2\""
    ELSE ""

(* the upper bound of "dall-e-2" off by one *)
CountError_OffByOne(model, n) ==
    IF n < 1 THEN "n_images must be at least 1"
    ELSE IF model = "dall-e-3" /\ n > 1
    THEN "n_images must be 1 when self.image_model == \"dall-e-3\""
    ELSE IF model = "dall-e-2" /\ n >= 10
    THEN "n_images must be between 1 and 10 (inclusive) when self.image_model == \"dall-e-2\""
    ELSE ""

CountError(model, n) ==
    IF n < 1 THEN "n_images must be at least 1"
    ELSE IF model = "dall-e-3" /\ n > 1
    THEN "n_images must be 1 when self.image_model == \"dall-e-3\""
    ELSE IF model = "dall-e-2" /\ n > 10
    THEN "n_images must be between 1 and 10 (inclusive) when self.image_model == \"dall-e-2\""
    ELSE ""

(* The user message is overwritten in the instance's list, and the list   *)
(* itself is handed to the client. The client builds the request body     *)
(* from the list either before it first suspends (eager) or afterwards.   *)
upgrade_prompt(t, rec, eager) ==
    LET msgs   == [completions_messages EXCEPT
                      ![Len(completions_messages)].content = Template(rec.prompt)]
        called == Logged(rec, Ev("call", "chat", [model |-> chat_model]))
        sent   == Logged(called, Ev("send", "chat",
                      [model |-> chat_model, messages |-> msgs]))
    IN  /\ completions_messages' = msgs
        /\ tasks' = [tasks EXCEPT ![t] =
              IF eager THEN [sent EXCEPT !.pc = "chat_sent"]
                       ELSE [called EXCEPT !.pc = "chat_pending"]]

make_image_text(t, rec, eager) ==
    LET checked == [rec EXCEPT !.vmodel = image_model]
        msg     == CountError(image_model, rec.n)
    IN  IF msg # ""
        THEN /\ tasks' = [tasks EXCEPT ![t] =
                    Raise(checked, "count", Exc("ValueError", msg))]
             /\ UNCHANGED completions_messages
        ELSE upgrade_prompt(t, checked, eager)

MakeImageText(t, image_prompt, n_images, image_size, eager) ==
    /\ tasks[t].pc = "idle"
    /\ make_image_text(t,
          [IdleTask EXCEPT !.op = "text", !.prompt = image_prompt,
                           !.n = n_images, !.size = image_size], eager)
    /\ UNCHANGED <<chat_model, image_model>>

(* The client builds the request body after its first suspension. *)
ChatSend(t) ==
    /\ tasks[t].pc = "chat_pending"
    /\ LET rec  == tasks[t]
           call == rec.log[Len(rec.log)]
       IN  tasks' = [tasks EXCEPT ![t] =
              [Logged(rec, Ev("send", "chat",
                  [model |-> call.data.model, messages |-> completions_messages]))
               EXCEPT !.pc = "chat_sent"]]
    /\ UNCHANGED <<chat_model, image_model, completions_messages>>

---------------------------------------------------------------------------
(* _upgrade_prompt after its await, then _get_image_data up to its await *)

(* a failed chat call issued again instead of raised *)
ChatReturn_Retry(t, resp) ==
    /\ tasks[t].pc = "chat_sent"
    /\ LET rec == Logged(tasks[t], Ev("ret", "chat", resp))
       IN  tasks' = [tasks EXCEPT ![t] =
              IF resp.exc # ""
              THEN Logged(rec, Ev("call", "chat", [model |-> chat_model]))
              ELSE IF Len(resp.choices) = 0
              THEN Raise(rec, "chat", Exc("IndexError", "list index out of range"))
              ELSE LET upgraded_prompt == resp.choices[1]
                   IN  [Logged(rec, Ev("call", "image",
                           [prompt |-> upgraded_prompt, n |-> rec.n, size |-> rec.size]))
                        EXCEPT !.pc = "imaging", !.upgraded = upgraded_prompt]]
    /\ UNCHANGED <<chat_model, image_model, completions_messages>>

ChatReturn(t, resp) ==
    /\ tasks[t].pc = "chat_sent"
    /\ LET rec == Logged(tasks[t], Ev("ret", "chat", resp))
       IN  tasks' = [tasks EXCEPT ![t] =
              IF resp.exc # ""
              THEN Raise(rec, "chat", Exc(resp.exc, ""))
              ELSE IF Len(resp.choices) = 0
              THEN Raise(rec, "chat", Exc("IndexError", "list index out of range"))
              ELSE LET upgraded_prompt == resp.choices[1]
                   IN  [Logged(rec, Ev("call", "image",
                           [prompt |-> upgraded_prompt, n |-> rec.n, size |-> rec.size]))
                        EXCEPT !.pc = "imaging", !.upgraded = upgraded_prompt]]
    /\ UNCHANGED <<chat_model, image_model, completions_messages>>

(* only the first image's URL kept *)
image_urls_First(data) == IF Len(data) = 0 THEN <<>> ELSE <<data[1].url>>

image_urls(data) == [i \in DOMAIN data |-> data[i].url]

ImageReturn(t, resp) ==
    /\ tasks[t].pc = "imaging"
    /\ LET rec == Logged(tasks[t], Ev("ret", "image", resp))
       IN  tasks' = [tasks EXCEPT ![t] =
              IF resp.exc # ""
              THEN Raise(rec, "image", Exc(resp.exc, ""))
              ELSE [rec EXCEPT !.pc = "done", !.result = image_urls(resp.data)]]
    /\ UNCHANGED <<chat_model, image_model, completions_messages>>

---------------------------------------------------------------------------
(* make_image_voice and _transcribe *)

(* the rejected path raised as an exception type of its own *)
AudioError_Typed(p) ==
    Exc("InvalidAudioFile", "The file at '" \o p.name \o "' is not a valid audio file.")

AudioError(p) ==
    Exc("ValueError", "The file at '" \o p.name \o "' is not a valid audio file.")

(* the file opened and sent without asking the validator's answer *)
transcribe_NoCheck(rec) ==
    LET ok      == valid_audio_file(rec.path)
        checked == Logged(rec, Ev("check", "valid_audio_file",
                       [path |-> rec.path.name, result |-> ok]))
    IN  IF rec.path.name \in FSDirs
        THEN Raise(checked, "open", Exc("IsADirectoryError", rec.path.name))
        ELSE LET opened == Logged(checked, Ev("open", "file", [path |-> rec.path.name]))
             IN  [Logged(opened, Ev("call", "transcribe",
                     [model |-> "whisper-1", file |-> rec.path.name]))
                  EXCEPT !.pc = "transcribing"]

transcribe(rec) ==
    LET ok      == valid_audio_file(rec.path)
        checked == Logged(rec, Ev("check", "valid_audio_file",
                       [path |-> rec.path.name, result |-> ok]))
    IN  IF ~ok THEN Raise(checked, "audio", AudioError(rec.path))
        ELSE IF rec.path.name \in FSDirs
        THEN Raise(checked, "open", Exc("IsADirectoryError", rec.path.name))
        ELSE LET opened == Logged(checked, Ev("open", "file", [path |-> rec.path.name]))
             IN  [Logged(opened, Ev("call", "transcribe",
                     [model |-> "whisper-1", file |-> rec.path.name]))
                  EXCEPT !.pc = "transcribing"]

MakeImageVoice(t, audio_file_path, n_images, image_size) ==
    /\ tasks[t].pc = "idle"
    /\ tasks' = [tasks EXCEPT ![t] =
          transcribe([IdleTask EXCEPT !.op = "voice", !.path = audio_file_path,
                                      !.n = n_images, !.size = image_size])]
    /\ UNCHANGED <<chat_model, image_model, completions_messages>>

(* make_image_text entered with the audio path in place of the transcript *)
TranscribeReturn_PathAsPrompt(t, resp, eager) ==
    /\ tasks[t].pc = "transcribing"
    /\ LET rec    == Logged(tasks[t], Ev("ret", "transcribe", resp))
           closed == Logged(rec, Ev("close", "file", [path |-> rec.path.name]))
       IN  IF resp.exc # ""
           THEN /\ tasks' = [tasks EXCEPT ![t] =
                       Raise(closed, "transcribe", Exc(resp.exc, ""))]
                /\ UNCHANGED completions_messages
           ELSE make_image_text(t, [closed EXCEPT !.prompt = rec.path.name], eager)
    /\ UNCHANGED <<chat_model, image_model>>

TranscribeReturn(t, resp, eager) ==
    /\ tasks[t].pc = "transcribing"
    /\ LET rec    == Logged(tasks[t], Ev("ret", "transcribe", resp))
           closed == Logged(rec, Ev("close", "file", [path |-> rec.path.name]))
       IN  IF resp.exc # ""
           THEN /\ tasks' = [tasks EXCEPT ![t] =
                       Raise(closed, "transcribe", Exc(resp.exc, ""))]
                /\ UNCHANGED completions_messages
           ELSE make_image_text(t, [closed EXCEPT !.prompt = resp.text], eager)
    /\ UNCHANGED <<chat_model, image_model>>

---------------------------------------------------------------------------
(* The caller takes the returned list or the raised exception *)

Return(t) ==
    /\ tasks[t].pc \in {"done", "failed"}
    /\ tasks' = [tasks EXCEPT ![t] = IdleTask]
    /\ UNCHANGED <<chat_model, image_model, completions_messages>>

set_chat_model(m) ==
    /\ chat_model' = m
    /\ UNCHANGED <<image_model, completions_messages, tasks>>

set_image_model(m) ==
    /\ image_model' = m
    /\ UNCHANGED <<chat_model, completions_messages, tasks>>

---------------------------------------------------------------------------
(* What the remote services may answer *)

TranscribeResponses ==
    {[exc |-> e, text |-> ""] : e \in ClientErrors}
        \cup {[exc |-> "", text |-> p] : p \in Prompts}

ChatResponses ==
    {[exc |-> e, choices |-> <<>>] : e \in ClientErrors}
        \cup {[exc |-> "", choices |-> c] : c \in ChoiceLists}

ImageResponses ==
    {[exc |-> e, data |-> <<>>] : e \in ClientErrors}
        \cup {[exc |-> "", data |-> d] :
                 d \in SeqsUpTo({[url |-> u] : u \in Urls}, MaxUrls)}

---------------------------------------------------------------------------
(* One caller awaiting each invocation before it starts the next *)

Init ==
    /\ chat_model \in ChatModels
    /\ image_model \in ImageModels
    /\ completions_messages =
          << [role |-> "system", content |-> main_context],
             [role |-> "user", content |-> ""] >>
    /\ tasks = [t \in Tasks |-> IdleTask]

AllIdle == \A t \in Tasks : tasks[t].pc = "idle"

StartText ==
    \E t \in Caller, p \in Prompts, n \in Counts, s \in Sizes, eager \in BOOLEAN :
        AllIdle /\ MakeImageText(t, p, n, s, eager)

StartVoice ==
    \E t \in Caller, p \in Paths, n \in Counts, s \in Sizes :
        AllIdle /\ MakeImageVoice(t, p, n, s)

Progress ==
    \/ \E t \in Tasks : ChatSend(t)
    \/ \E t \in Tasks, r \in TranscribeResponses, eager \in BOOLEAN :
          TranscribeReturn(t, r, eager)
    \/ \E t \in Tasks, r \in ChatResponses : ChatReturn(t, r)
    \/ \E t \in Tasks, r \in ImageResponses : ImageReturn(t, r)
    \/ \E t \in Tasks : Return(t)

Configure ==
    \/ \E m \in ChatModels : set_chat_model(m)
    \/ \E m \in ImageModels : set_image_model(m)

Next == StartText \/ StartVoice \/ Progress \/ Configure

Spec == Init /\ [][Next]_vars

---------------------------------------------------------------------------
(* Two callers whose invocations on the one instance overlap, the model   *)
(* configuration left as constructed                                      *)

ConcCounts == {0, 1}

ConcPaths == {p \in Paths : p.name \in {"a.WAV", "a.txt", "d.mp3"}}

ConcSize == "256x256"

ConcTranscribeResponses ==
    {r \in TranscribeResponses : r.exc \in {"", "RateLimitError"}}

ConcChatResponses ==
    {r \in ChatResponses :
        r.exc \in {"", "RateLimitError"} /\ r.choices \in {<<>>, <<"a dog">>}}

ConcImageResponses ==
    {r \in ImageResponses :
        r.exc \in {"", "RateLimitError"} /\ r.data \in {<<>>, <<[url |-> "http://x/1"]>>}}

ConcStartText ==
    \E t \in Tasks, p \in Prompts, n \in ConcCounts, eager \in BOOLEAN :
        MakeImageText(t, p, n, ConcSize, eager)

ConcStartVoice ==
    \E t \in Tasks, p \in ConcPaths, n \in ConcCounts :
        MakeImageVoice(t, p, n, ConcSize)

ConcProgress ==
    \/ \E t \in Tasks : ChatSend(t)
    \/ \E t \in Tasks, r \in ConcTranscribeResponses, eager \in BOOLEAN :
          TranscribeReturn(t, r, eager)
    \/ \E t \in Tasks, r \in ConcChatResponses : ChatReturn(t, r)
    \/ \E t \in Tasks, r \in ConcImageResponses : ImageReturn(t, r)
    \/ \E t \in Tasks : Return(t)

NextConc == ConcStartText \/ ConcStartVoice \/ ConcProgress

SpecConc == Init /\ [][NextConc]_vars

---------------------------------------------------------------------------
(* One caller probing paths: every make_image_voice runs the validator    *)

AudioTranscribeResponses == {r \in TranscribeResponses : r.exc # ""}

AudioStartVoice ==
    \E t \in Caller, p \in AudioPaths, n \in ConcCounts :
        AllIdle /\ MakeImageVoice(t, p, n, ConcSize)

AudioProgress ==
    \/ \E t \in Tasks, r \in AudioTranscribeResponses : TranscribeReturn(t, r, TRUE)
    \/ \E t \in Tasks : Return(t)

NextAudio == AudioStartVoice \/ AudioProgress

SpecAudio == Init /\ [][NextAudio]_vars

---------------------------------------------------------------------------
(* Reading a task's log *)

RemoteStages == {"transcribe", "chat", "image"}

IndexOf(log, ev, api) ==
    CHOOSE i \in DOMAIN log : log[i].ev = ev /\ log[i].api = api

CallsOf(log) == SelectSeq(log, LAMBDA e : e.ev = "call")

ApisOf(s) == [i \in DOMAIN s |-> s[i].api]

NoRemoteCall(log) == \A i \in DOMAIN log : log[i].ev \notin {"call", "send"}

CountRejected(t) == tasks[t].pc = "failed" /\ tasks[t].stage = "count"

---------------------------------------------------------------------------
(* C1: make_image_text called with n_images < 1 fails with the count      *)
(* validation ValueError and its invocation issues no call on the client: *)
(* neither the chat-completion nor the image-generation call.             *)
C1_BelowOneRejectedWithoutCall ==
    \A t \in Tasks :
        (tasks[t].op = "text" /\ tasks[t].n < 1) =>
            /\ CountRejected(t)
            /\ tasks[t].err.type = "ValueError"
            /\ Len(tasks[t].log) = 0

C1_Witness ==
    \E t \in Tasks :
        /\ tasks[t].op = "text" /\ tasks[t].n < 1
        /\ tasks[t].pc = "failed"
        /\ image_model = "other"

(* C2: count validation decides by the image model it reads: with         *)
(* "dall-e-3" every n > 1 is rejected and n = 1 passes; with "dall-e-2"   *)
(* every n in 1..10 passes and every n > 10 is rejected.                  *)
C2_ValidationByModel ==
    \A t \in Tasks :
        LET n == tasks[t].n
            m == tasks[t].vmodel
        IN  /\ (m = "dall-e-3" /\ n > 1) => CountRejected(t)
            /\ (m = "dall-e-3" /\ n = 1) => ~CountRejected(t)
            /\ (m = "dall-e-2" /\ n \in 1..10) => ~CountRejected(t)
            /\ (m = "dall-e-2" /\ n > 10) => CountRejected(t)

C2_Witness ==
    \E t \in Tasks :
        /\ tasks[t].vmodel = "dall-e-2" /\ tasks[t].n = 10
        /\ tasks[t].pc = "chat_sent"

(* C3: in either entry operation an n_images that count validation        *)
(* rejects is rejected before any remote call is issued: the invocation   *)
(* has made no transcription, chat-completion or image-generation call.   *)
C3_RejectedBeforeAnyRemoteCall ==
    \A t \in Tasks : CountRejected(t) => NoRemoteCall(tasks[t].log)

(* C4: when a remote call raises, the invocation fails at that step with  *)
(* the exception raised, issues no later remote call and returns no URL   *)
(* list; and no remote call is issued twice in one invocation.            *)
C4_FailsAtTheFailedStep ==
    \A t \in Tasks :
        LET log == tasks[t].log
        IN  /\ \A a \in RemoteStages :
                  Cardinality({i \in DOMAIN log :
                                  log[i].ev = "call" /\ log[i].api = a}) <= 1
            /\ \A i \in DOMAIN log :
                  (log[i].ev = "ret" /\ log[i].data.exc # "") =>
                      /\ tasks[t].pc = "failed"
                      /\ tasks[t].stage = log[i].api
                      /\ tasks[t].err.type = log[i].data.exc
                      /\ tasks[t].result = <<>>
                      /\ \A j \in DOMAIN log :
                            j > i => log[j].ev \notin {"call", "send", "ret"}

C4_Witness ==
    \E t \in Tasks :
        /\ tasks[t].pc = "failed" /\ tasks[t].stage = "chat"
        /\ tasks[t].err.type \in ClientErrors
        /\ tasks[t].op = "voice"

(* C5: a make_image_text invocation that completes made its image call    *)
(* with the text the chat step returned as prompt and the caller's        *)
(* n_images and image_size, and returns exactly the URLs of the image     *)
(* response, same order and same length, whatever n_images was.           *)
C5_ReturnsServiceUrls ==
    \A t \in Tasks :
        (tasks[t].op = "text" /\ tasks[t].pc = "done") =>
            LET log   == tasks[t].log
                chat  == log[IndexOf(log, "ret", "chat")].data
                call  == log[IndexOf(log, "call", "image")].data
                image == log[IndexOf(log, "ret", "image")].data
            IN  /\ call.prompt = chat.choices[1]
                /\ call.n = tasks[t].n
                /\ call.size = tasks[t].size
                /\ Len(tasks[t].result) = Len(image.data)
                /\ \A k \in DOMAIN image.data :
                      tasks[t].result[k] = image.data[k].url

C5_Witness ==
    \E t \in Tasks :
        /\ tasks[t].op = "text" /\ tasks[t].pc = "done"
        /\ tasks[t].n = 1
        /\ tasks[t].result = <<"http://x/2", "http://x/1">>

(* C6: a make_image_voice invocation that completes called transcribe     *)
(* once, then make_image_text with the transcript as prompt and the       *)
(* caller's n_images and image_size; its remote calls are transcribe,     *)
(* chat, image in that order, each issued after the previous returned.    *)
C6_VoiceCallsInOrder ==
    \A t \in Tasks :
        (tasks[t].op = "voice" /\ tasks[t].pc = "done") =>
            LET log == tasks[t].log
            IN  /\ ApisOf(CallsOf(log)) = <<"transcribe", "chat", "image">>
                /\ IndexOf(log, "ret", "transcribe") < IndexOf(log, "call", "chat")
                /\ IndexOf(log, "ret", "chat") < IndexOf(log, "call", "image")
                /\ tasks[t].prompt = log[IndexOf(log, "ret", "transcribe")].data.text
                /\ log[IndexOf(log, "call", "image")].data.n = tasks[t].n
                /\ log[IndexOf(log, "call", "image")].data.size = tasks[t].size

C6_Witness ==
    \E t \in Tasks :
        /\ tasks[t].op = "voice" /\ tasks[t].pc = "done"
        /\ tasks[t].prompt = "dog"
        /\ Len(tasks[t].result) = 2

(* C7: make_image_voice with a path the validator rejects fails with the  *)
(* invalid-audio-file ValueError, and that invocation never opens the     *)
(* file and issues no remote call.                                        *)
C7_RejectedPathNotOpened ==
    \A t \in Tasks :
        (tasks[t].op = "voice" /\ ~valid_audio_file(tasks[t].path)) =>
            /\ tasks[t].pc = "failed"
            /\ tasks[t].stage = "audio"
            /\ tasks[t].err.type = "ValueError"
            /\ \A i \in DOMAIN tasks[t].log :
                  tasks[t].log[i].ev \notin {"open", "call", "send"}

C7_Witness ==
    \E t \in Tasks :
        /\ tasks[t].op = "voice" /\ tasks[t].path.name = "a.txt"
        /\ tasks[t].pc = "failed" /\ tasks[t].stage = "audio"

(* C8: the validator answers true exactly when the path exists and its    *)
(* extension, compared without regard to case, is one of mp3, mp4, mpeg,  *)
(* mpga, m4a, wav, webm; false for a missing path and for an existing     *)
(* path with another extension or none.                                   *)
C8_Extension ==
    [name \in {p.name : p \in AudioPaths} |->
        CASE name \in {"a.mp3", "a.Mp3", "a.txt.mp3", "d.mp3", "gone.mp3"} -> "mp3"
          [] name = "a.mp4" -> "mp4"
          [] name = "a.mpeg" -> "mpeg"
          [] name = "a.mpga" -> "mpga"
          [] name = "v/a.m4a" -> "m4a"
          [] name \in {"a.wav", "a.WAV"} -> "wav"
          [] name = "a.webm" -> "webm"
          [] name \in {"a.txt", "a.mp3.txt", "gone.txt"} -> "txt"
          [] name = "a.mp" -> "mp"
          [] name = "a.wave" -> "wave"
          [] name \in {"noext", ".mp3", "a.", "v.wav/a"} -> ""]

C8_Existing ==
    {"a.mp3", "a.mp4", "a.mpeg", "a.mpga", "v/a.m4a", "a.wav", "a.webm",
     "a.WAV", "a.Mp3", "a.txt", "a.mp", "a.wave", "noext", ".mp3", "a.",
     "a.mp3.txt", "a.txt.mp3", "v.wav/a", "d.mp3"}

C8_ValidatorExact ==
    \A t \in Tasks :
        tasks[t].op = "voice" =>
            LET check == tasks[t].log[1]
                name  == tasks[t].path.name
            IN  /\ check.api = "valid_audio_file"
                /\ check.data.result =
                      (/\ name \in C8_Existing
                       /\ C8_Extension[name] \in
                             {"mp3", "mp4", "mpeg", "mpga", "m4a", "wav", "webm"})

C8_Witness ==
    \E t \in Tasks :
        /\ tasks[t].op = "voice" /\ tasks[t].path.name = "a.WAV"
        /\ tasks[t].log[1].data.result

CountMessages == {CountError(m, n) : m \in ImageModels, n \in Counts} \ {""}

C10_RequestCarriesOwnPrompt ==
    \A t \in Tasks :
        LET log == tasks[t].log
        IN  \A i \in DOMAIN log :
                (log[i].ev = "send" /\ log[i].api = "chat") =>
                    log[i].data.messages[2].content = Template(tasks[t].prompt)

====
